---- MODULE Spec2Model ----
(***************************************************************************)
(* Weather Data Service: the Flask orchestrator (app.py), the Open-Meteo   *)
(* client (open_meteo_client.py) and the GCS client (gcs_client.py).        *)
(*                                                                         *)
(* Python strings that the code inspects character by character (dates,    *)
(* object names) are tuples of one-character strings.  JSON texts are      *)
(* tuples of lexical tokens.  Python None and JSON null are the same value *)
(* (the one token null), as they are in the program.                       *)
(***************************************************************************)
EXTENDS Integers, Sequences, FiniteSets, TLC

\* ------------------------------------------------------------------ bounds
\* number of objects the service may add to the bucket in one behaviour
MaxStored == 2

\* ----------------------------------------------------------- text helpers
Digits == <<"0", "1", "2", "3", "4", "5", "6", "7", "8", "9">>

IsDigit(c) == \E i \in 1..10 : Digits[i] = c

DigitVal(c) == (CHOOSE i \in 1..10 : Digits[i] = c) - 1

RECURSIVE ToInt(_)
\* int() of a non-empty string of decimal digits
ToInt(s) ==
    IF Len(s) = 0 THEN 0
    ELSE 10 * ToInt(SubSeq(s, 1, Len(s) - 1)) + DigitVal(s[Len(s)])

RECURSIVE ToDigits(_)
\* decimal digits of a natural number, no leading zeros ("0" for 0)
ToDigits(n) ==
    IF n < 10 THEN <<Digits[n + 1]>>
    ELSE ToDigits(n \div 10) \o <<Digits[(n % 10) + 1]>>

RECURSIVE Replace(_, _, _)
\* str.replace(old, new) for a one-character old and a new of any length
Replace(s, old, new) ==
    IF Len(s) = 0 THEN <<>>
    ELSE (IF Head(s) = old THEN new ELSE <<Head(s)>>) \o Replace(Tail(s), old, new)

StartsWith(s, p) == Len(s) >= Len(p) /\ SubSeq(s, 1, Len(p)) = p

\* ------------------------------------------------- datetime.strptime model
\* regex alternatives of _strptime for %m : 1[0-2]|0[1-9]|[1-9]
MonthMatches(m) ==
    \/ Len(m) = 2 /\ m[1] = "1" /\ m[2] \in {"0", "1", "2"}
    \/ Len(m) = 2 /\ m[1] = "0" /\ IsDigit(m[2]) /\ m[2] # "0"
    \/ Len(m) = 1 /\ IsDigit(m[1]) /\ m[1] # "0"

\* regex alternatives of _strptime for %d : 3[01]|[12]\d|0[1-9]|[1-9]| [1-9]
DayMatches(d) ==
    \/ Len(d) = 2 /\ d[1] = "3" /\ d[2] \in {"0", "1"}
    \/ Len(d) = 2 /\ d[1] \in {"1", "2"} /\ IsDigit(d[2])
    \/ Len(d) = 2 /\ d[1] = "0" /\ IsDigit(d[2]) /\ d[2] # "0"
    \/ Len(d) = 1 /\ IsDigit(d[1]) /\ d[1] # "0"
    \/ Len(d) = 2 /\ d[1] = " " /\ IsDigit(d[2]) /\ d[2] # "0"

IsLeap(y) == (y % 4 = 0) /\ ((y % 100 # 0) \/ (y % 400 = 0))

DaysInMonth(y, m) ==
    IF m = 2 THEN (IF IsLeap(y) THEN 29 ELSE 28)
    ELSE IF m \in {4, 6, 9, 11} THEN 30 ELSE 31

\* the day field as int() reads it (int(" 1") = 1)
DayValue(d) == IF d[1] = " " THEN ToInt(Tail(d)) ELSE ToInt(d)

\* datetime.strptime(s, '%Y-%m-%d') returns (TRUE) or raises ValueError (FALSE):
\* \d\d\d\d - month - day, nothing left over, and a date datetime() accepts
StrptimeOk(s) ==
    /\ Len(s) >= 8
    /\ \A i \in 1..4 : IsDigit(s[i])
    /\ s[5] = "-"
    /\ \E p \in {7, 8} :
          /\ p < Len(s)
          /\ s[p] = "-"
          /\ MonthMatches(SubSeq(s, 6, p - 1))
          /\ DayMatches(SubSeq(s, p + 1, Len(s)))
          /\ ToInt(SubSeq(s, 1, 4)) >= 1
          /\ DayValue(SubSeq(s, p + 1, Len(s)))
                <= DaysInMonth(ToInt(SubSeq(s, 1, 4)), ToInt(SubSeq(s, 6, p - 1)))

validate_date_format(date_str) == StrptimeOk(date_str)

\* --------------------------------------------------------- JSON field values
\* A value of one of the four request fields.  kind "absent": the key is not
\* in the object.  A number is held in thousandths (52.52 is 52520).
FAbsent == [kind |-> "absent", n |-> 0, b |-> FALSE, s |-> <<>>]
FNull == [kind |-> "null", n |-> 0, b |-> FALSE, s |-> <<>>]
FNum(x) == [kind |-> "num", n |-> x, b |-> FALSE, s |-> <<>>]
FBool(x) == [kind |-> "bool", n |-> 0, b |-> x, s |-> <<>>]
FStr(x) == [kind |-> "str", n |-> 0, b |-> FALSE, s |-> x]
FArr == [kind |-> "arr", n |-> 0, b |-> FALSE, s |-> <<>>]

\* dict.get(key): None for an absent key and for a null value alike
IsNone(f) == f.kind \in {"absent", "null"}

\* isinstance(v, (int, float)): bool is a subclass of int
IsIntOrFloat(f) == f.kind \in {"num", "bool"}

IsStr(f) == f.kind = "str"

\* the number a value formats as: True is 1, False is 0
Thousandths(f) == IF f.kind = "bool" THEN (IF f.b THEN 1000 ELSE 0) ELSE f.n

Abs(x) == IF x < 0 THEN -x ELSE x

\* hundredths of |x| as the 'f' presentation rounds them; the model's numbers
\* with a 5 in the third decimal are exact binary fractions, so round-half-even
RoundHundredths(a) ==
    LET h == a \div 10
        r == a % 10
    IN IF r > 5 \/ (r = 5 /\ h % 2 = 1) THEN h + 1 ELSE h

\* f"{v:.2f}"
FormatFixed2(f) ==
    LET x == Thousandths(f)
        h == RoundHundredths(Abs(x))
    IN (IF x < 0 THEN <<"-">> ELSE <<>>)
       \o ToDigits(h \div 100) \o <<".">>
       \o <<Digits[((h % 100) \div 10) + 1], Digits[(h % 10) + 1]>>

\* generate_filename with the longitude line copied from the latitude line
generate_filename_lat_twice(latitude, longitude, start_date_str, end_date_str) ==
    LET start_date_fn == Replace(start_date_str, "-", <<>>)
        end_date_fn == Replace(end_date_str, "-", <<>>)
        lat_str == Replace(FormatFixed2(latitude), ".", <<"_">>)
        lon_str == Replace(FormatFixed2(latitude), ".", <<"_">>)
    IN <<"w", "e", "a", "t", "h", "e", "r", "_", "l", "a", "t">> \o lat_str
       \o <<"_", "l", "o", "n">> \o lon_str
       \o <<"_", "f", "r", "o", "m">> \o start_date_fn
       \o <<"_", "t", "o">> \o end_date_fn
       \o <<".", "j", "s", "o", "n">>

generate_filename(latitude, longitude, start_date_str, end_date_str) ==
    LET start_date_fn == Replace(start_date_str, "-", <<>>)
        end_date_fn == Replace(end_date_str, "-", <<>>)
        lat_str == Replace(FormatFixed2(latitude), ".", <<"_">>)
        lon_str == Replace(FormatFixed2(longitude), ".", <<"_">>)
    IN <<"w", "e", "a", "t", "h", "e", "r", "_", "l", "a", "t">> \o lat_str
       \o <<"_", "l", "o", "n">> \o lon_str
       \o <<"_", "f", "r", "o", "m">> \o start_date_fn
       \o <<"_", "t", "o">> \o end_date_fn
       \o <<".", "j", "s", "o", "n">>

\* ------------------------------------------------------------ JSON texts
\* A JSON text is a tuple of lexical tokens; a parsed JSON value is the tuple
\* of its tokens without whitespace and with every number literal converted
\* (n in tenths, f: a float rather than an int).  Python None is JSON null.
Tok(t, s) == [t |-> t, s |-> s, n |-> 0, f |-> FALSE]
NumVal(n, f) == [t |-> "num", s |-> "", n |-> n, f |-> f]

LBrace == Tok("punct", "{")
RBrace == Tok("punct", "}")
LBracket == Tok("punct", "[")
RBracket == Tok("punct", "]")
Comma == Tok("punct", ",")
Colon == Tok("punct", ":")
Space == Tok("ws", " ")
Newline == Tok("ws", "\n")
Indent == Tok("ws", "  ")
NullTok == Tok("lit", "null")

NoneValue == <<NullTok>>

\* the number literals of the model's texts, with what int()/float() make of
\* them; canon marks the literal that repr() writes for that number
NumberLiterals ==
    { [lit |-> "0", n |-> 0, f |-> FALSE, canon |-> TRUE],
      [lit |-> "7", n |-> 70, f |-> FALSE, canon |-> TRUE],
      [lit |-> "7.0", n |-> 70, f |-> TRUE, canon |-> TRUE],
      [lit |-> "21.5", n |-> 215, f |-> TRUE, canon |-> TRUE],
      [lit |-> "21.50", n |-> 215, f |-> TRUE, canon |-> FALSE] }

IsNumberLiteral(s) == \E r \in NumberLiterals : r.lit = s

ParseNumber(s) ==
    LET r == CHOOSE r \in NumberLiterals : r.lit = s IN NumVal(r.n, r.f)

NumberRepr(v) ==
    (CHOOSE r \in NumberLiterals : r.n = v.n /\ r.f = v.f /\ r.canon).lit

IsAtomTok(k) ==
    \/ k.t = "lit" /\ k.s \in {"null", "true", "false"}
    \/ k.t = "num" /\ IsNumberLiteral(k.s)
    \/ k.t = "str"

NotWs(k) == k.t # "ws"

RECURSIVE ParseValue(_, _), ParseElements(_, _), ParseMembers(_, _)
\* recursive descent over the tokens t from index i: the index after the
\* value that starts at i, or 0 when no JSON value starts there
ParseValue(t, i) ==
    IF i > Len(t) THEN 0
    ELSE IF IsAtomTok(t[i]) THEN i + 1
    ELSE IF t[i] = LBracket
         THEN (IF i + 1 <= Len(t) /\ t[i + 1] = RBracket THEN i + 2
               ELSE ParseElements(t, i + 1))
    ELSE IF t[i] = LBrace
         THEN (IF i + 1 <= Len(t) /\ t[i + 1] = RBrace THEN i + 2
               ELSE ParseMembers(t, i + 1))
    ELSE 0

\* value ("," value)* "]"
ParseElements(t, i) ==
    LET j == ParseValue(t, i)
    IN IF j = 0 \/ j > Len(t) THEN 0
       ELSE IF t[j] = RBracket THEN j + 1
       ELSE IF t[j] = Comma THEN ParseElements(t, j + 1)
       ELSE 0

\* string ":" value ("," string ":" value)* "}"
ParseMembers(t, i) ==
    IF i + 1 > Len(t) \/ t[i].t # "str" \/ t[i + 1] # Colon THEN 0
    ELSE LET j == ParseValue(t, i + 2)
         IN IF j = 0 \/ j > Len(t) THEN 0
            ELSE IF t[j] = RBrace THEN j + 1
            ELSE IF t[j] = Comma THEN ParseMembers(t, j + 1)
            ELSE 0

ConvertTok(k) == IF k.t = "num" THEN ParseNumber(k.s) ELSE k

\* json.loads(text): ok = FALSE is JSONDecodeError
json_loads(text) ==
    LET t == SelectSeq(text, NotWs)
    IN IF Len(t) > 0 /\ ParseValue(t, 1) = Len(t) + 1
       THEN [ok |-> TRUE, value |-> [i \in 1..Len(t) |-> ConvertTok(t[i])]]
       ELSE [ok |-> FALSE, value |-> NoneValue]

RECURSIVE Indentation(_)
Indentation(d) == IF d = 0 THEN <<>> ELSE <<Indent>> \o Indentation(d - 1)

IsOpen(k) == k = LBracket \/ k = LBrace
IsClose(k) == k = RBracket \/ k = RBrace

WriteTok(k) == IF k.t = "num" THEN Tok("num", NumberRepr(k)) ELSE k

RECURSIVE Pretty(_, _, _)
\* the tokens of v from index i on, written at nesting depth d
Pretty(v, i, d) ==
    IF i > Len(v) THEN <<>>
    ELSE IF IsOpen(v[i]) /\ i < Len(v) /\ IsClose(v[i + 1])
         THEN <<v[i], v[i + 1]>> \o Pretty(v, i + 2, d)
    ELSE IF IsOpen(v[i])
         THEN <<v[i], Newline>> \o Indentation(d + 1) \o Pretty(v, i + 1, d + 1)
    ELSE IF IsClose(v[i])
         THEN <<Newline>> \o Indentation(d - 1) \o <<v[i]>> \o Pretty(v, i + 1, d - 1)
    ELSE IF v[i] = Comma
         THEN <<Comma, Newline>> \o Indentation(d) \o Pretty(v, i + 1, d)
    ELSE IF v[i] = Colon
         THEN <<Colon, Space>> \o Pretty(v, i + 1, d)
    ELSE <<WriteTok(v[i])>> \o Pretty(v, i + 1, d)

\* json.dumps(value, indent=2)
json_dumps(value) == Pretty(value, 1, 0)


\* ------------------------------------------------ Weather Provider Client
\* What the archive API does with one request: net is how requests.get ends
\* ("ok": a response arrived), status and text are the response.
Provider(net, status, text) == [net |-> net, status |-> status, text |-> text]

\* the value fetch_weather_data hands to its caller, or the fact that it raised
Returned(value) == [raised |-> FALSE, data |-> value]
Raised == [raised |-> TRUE, data |-> NoneValue]

fetch_weather_data(prov) ==
    IF prov.net = "timeout"
    THEN Raised  \* the handler prints response.text, response is unbound
    ELSE IF prov.net = "connection_error" THEN Returned(NoneValue)
    ELSE IF prov.status >= 400 /\ prov.status < 600
         THEN Returned(NoneValue)  \* raise_for_status: HTTPError
    ELSE IF ~json_loads(prov.text).ok
         THEN Returned(NoneValue)  \* response.json(): JSONDecodeError
    ELSE Returned(json_loads(prov.text).value)

\* ----------------------------------------------------- Object Store Client
\* The bucket is a function from object names to their bodies (JSON texts or
\* not).  fault is what the storage service does to one call: "none", or the
\* exception it raises.
Put(bkt, name, text) ==
    [k \in (DOMAIN bkt) \cup {name} |-> IF k = name THEN text ELSE bkt[k]]

\* an upload that creates the object but leaves an existing one as it is
upload_from_string_create_only(bkt, name, text) ==
    IF name \in DOMAIN bkt THEN bkt ELSE Put(bkt, name, text)

\* blob.upload_from_string: creates the object or replaces its body
upload_from_string(bkt, name, text) == Put(bkt, name, text)

upload_to_gcs(client, bkt, destination_blob_name, data_json_string, fault) ==
    IF client = "None" THEN [ok |-> FALSE, bucket |-> bkt]
    ELSE IF fault = "none"
         THEN [ok |-> TRUE,
               bucket |-> upload_from_string(bkt, destination_blob_name,
                                             data_json_string)]
    ELSE [ok |-> FALSE, bucket |-> bkt]

\* ok = FALSE is the None result; files is the set of listed names
list_gcs_files(client, bkt, prefix, fault) ==
    IF client = "None" THEN [ok |-> FALSE, files |-> {}]
    ELSE IF fault = "none"
         THEN [ok |-> TRUE, files |-> {k \in DOMAIN bkt : StartsWith(k, prefix)}]
    ELSE [ok |-> FALSE, files |-> {}]

get_gcs_file_content(client, bkt, blob_name, fault) ==
    IF client = "None" THEN NoneValue
    ELSE IF fault # "none" THEN NoneValue
    ELSE IF blob_name \notin DOMAIN bkt THEN NoneValue
    ELSE IF ~json_loads(bkt[blob_name]).ok THEN NoneValue
    ELSE json_loads(bkt[blob_name]).value

\* --------------------------------------------------- Request Orchestrator
\* the guard written as `GCS_BUCKET_NAME is None`
BucketUnset_is_None(name) == ~name.set

\* `not GCS_BUCKET_NAME`: the variable is None or the empty string
BucketUnset(name) == ~name.set \/ name.name = ""

\* the handler without its check of the fetch result
FetchFailed_unchecked(data) == FALSE

\* `weather_api_data is None`
FetchFailed(data) == data = NoneValue

\* the check written as `not content`: None, false, 0, "", [] and {} alike
ContentMissing_falsy(content) ==
    \/ content \in {<<NullTok>>, <<Tok("lit", "false")>>, <<Tok("str", "")>>,
                    <<NumVal(0, FALSE)>>, <<NumVal(0, TRUE)>>}
    \/ Len(content) = 2 /\ IsOpen(content[1]) /\ IsClose(content[2])

\* `content is None`
ContentMissing(content) == content = NoneValue

\* A request body.  kind: "json" (a JSON text with a JSON content type),
\* "malformed" (not a JSON text), "empty" (no body), "no_mimetype" (no JSON
\* content type).  top is the JSON value's type, truthy its Python truth value;
\* for an object the four fields follow, extra tells of any other key.
Body(kind, top, truthy, extra, lat, lon, sd, ed) ==
    [kind |-> kind, top |-> top, truthy |-> truthy, extra |-> extra,
     latitude |-> lat, longitude |-> lon, start_date |-> sd, end_date |-> ed]

NonObject(kind, top, truthy) ==
    Body(kind, top, truthy, FALSE, FAbsent, FAbsent, FAbsent, FAbsent)

Object(extra, lat, lon, sd, ed) ==
    Body("json", "obj",
         extra \/ lat.kind # "absent" \/ lon.kind # "absent"
               \/ sd.kind # "absent" \/ ed.kind # "absent",
         extra, lat, lon, sd, ed)

\* request.get_json(): "value", "None" or "raise" (BadRequest on a body that
\* is not JSON; without a JSON content type None or UnsupportedMediaType,
\* by Flask version)
get_json(body) ==
    IF body.kind = "json" THEN {"value"}
    ELSE IF body.kind = "no_mimetype" THEN {"None", "raise"}
    ELSE {"raise"}

RequiredParams == <<"latitude", "longitude", "start_date", "end_date">>

ParamOf(body, key) ==
    IF key = "latitude" THEN body.latitude
    ELSE IF key = "longitude" THEN body.longitude
    ELSE IF key = "start_date" THEN body.start_date
    ELSE body.end_date

MissingParams(body) ==
    LET IsMissing(key) == IsNone(ParamOf(body, key))
    IN SelectSeq(RequiredParams, IsMissing)

TypesOk(latitude, longitude) == IsIntOrFloat(latitude) /\ IsIntOrFloat(longitude)

DatesOk(start_date, end_date) ==
    /\ IsStr(start_date) /\ validate_date_format(start_date.s)
    /\ IsStr(end_date) /\ validate_date_format(end_date.s)

NotCalled == [called |-> FALSE, raised |-> FALSE, data |-> NoneValue]

Response(status, kind) ==
    [status |-> status, kind |-> kind, missing |-> <<>>, file_name |-> <<>>,
     content |-> NoneValue, files |-> {}, bucket |-> ""]

\* what one request leaves behind: the response, the collaborator calls in
\* order, the result of the fetch, and the bucket
Outcome(rsp, cls, fch, bkt) ==
    [resp |-> rsp, calls |-> cls, fetched |-> fch, bucket |-> bkt]

index == Response(200, "Welcome")

store_weather_data_endpoint(name, client, bkt, body, gj, prov, fault) ==
    IF BucketUnset(name)
    THEN Outcome(Response(500, "ServerMisconfigured"), <<>>, NotCalled, bkt)
    ELSE IF gj = "raise"
    THEN Outcome(Response(400, "MalformedJson"), <<>>, NotCalled, bkt)
    ELSE IF gj = "None" \/ ~body.truthy
    THEN Outcome(Response(400, "NoJsonPayload"), <<>>, NotCalled, bkt)
    ELSE IF body.top # "obj"
    THEN \* req_data.get: AttributeError, nothing catches it
         Outcome(Response(500, "UnhandledException"), <<>>, NotCalled, bkt)
    ELSE IF MissingParams(body) # <<>>
    THEN Outcome([Response(400, "MissingParameters")
                      EXCEPT !.missing = MissingParams(body)],
                 <<>>, NotCalled, bkt)
    ELSE IF ~TypesOk(body.latitude, body.longitude)
    THEN Outcome(Response(400, "InvalidType"), <<>>, NotCalled, bkt)
    ELSE IF ~DatesOk(body.start_date, body.end_date)
    THEN Outcome(Response(400, "InvalidDateFormat"), <<>>, NotCalled, bkt)
    ELSE
      LET weather_api_data == fetch_weather_data(prov)
          fch == [called |-> TRUE, raised |-> weather_api_data.raised,
                  data |-> weather_api_data.data]
          file_name == generate_filename(body.latitude, body.longitude,
                                         body.start_date.s, body.end_date.s)
          up == upload_to_gcs(client, bkt, file_name,
                              json_dumps(weather_api_data.data), fault)
      IN IF weather_api_data.raised
         THEN Outcome(Response(500, "UnhandledException"), <<"fetch">>, fch, bkt)
         ELSE IF FetchFailed(weather_api_data.data)
         THEN Outcome(Response(502, "UpstreamFetchFailed"), <<"fetch">>, fch, bkt)
         ELSE IF up.ok
         THEN Outcome([Response(201, "Stored") EXCEPT !.file_name = file_name],
                      <<"fetch", "write">>, fch, up.bucket)
         ELSE Outcome(Response(500, "StorageWriteFailed"),
                      <<"fetch", "write">>, fch, up.bucket)

WeatherPrefix == <<"w", "e", "a", "t", "h", "e", "r", "_">>

\* the check written as `not files`: None and the empty list alike
ListFailed_falsy(files) == ~files.ok \/ files.files = {}

\* `files is None`
ListFailed(files) == ~files.ok

list_weather_files_endpoint(name, client, bkt, fault) ==
    IF BucketUnset(name)
    THEN Outcome(Response(500, "ServerMisconfigured"), <<>>, NotCalled, bkt)
    ELSE LET files == list_gcs_files(client, bkt, WeatherPrefix, fault)
         IN IF ListFailed(files)
            THEN Outcome(Response(500, "StorageListFailed"), <<"list">>, NotCalled, bkt)
            ELSE Outcome([Response(200, "Listing")
                              EXCEPT !.files = files.files, !.bucket = name.name],
                         <<"list">>, NotCalled, bkt)

weather_file_content_endpoint(name, client, bkt, file_name, fault) ==
    IF BucketUnset(name)
    THEN Outcome(Response(500, "ServerMisconfigured"), <<>>, NotCalled, bkt)
    ELSE IF file_name = <<>>
    THEN Outcome(Response(400, "MissingFileName"), <<>>, NotCalled, bkt)
    ELSE LET content == get_gcs_file_content(client, bkt, file_name, fault)
         IN IF ContentMissing(content)
            THEN Outcome([Response(404, "FileNotFoundOrUnparseable")
                              EXCEPT !.file_name = file_name],
                         <<"readJson">>, NotCalled, bkt)
            ELSE Outcome([Response(200, "Content") EXCEPT !.content = content],
                         <<"readJson">>, NotCalled, bkt)


\* ------------------------------------------------------------ input sets
Date_2023_03_01 == <<"2", "0", "2", "3", "-", "0", "3", "-", "0", "1">>
Date_2023_03_03 == <<"2", "0", "2", "3", "-", "0", "3", "-", "0", "3">>
Date_2023_3_1 == <<"2", "0", "2", "3", "-", "3", "-", "1">>
Date_2023_15_01 == <<"2", "0", "2", "3", "-", "1", "5", "-", "0", "1">>
Date_2023_02_30 == <<"2", "0", "2", "3", "-", "0", "2", "-", "3", "0">>
Date_01_03_2023 == <<"0", "1", "-", "0", "3", "-", "2", "0", "2", "3">>
Date_Slashes == <<"2", "0", "2", "3", "/", "0", "3", "/", "0", "1">>
Text_52_52 == <<"5", "2", ".", "5", "2">>

BaseLat == FNum(52520)
BaseLon == FNum(13410)
BaseStart == FStr(Date_2023_03_01)
BaseEnd == FStr(Date_2023_03_03)

LatValues ==
    {BaseLat, FNum(52524), FBool(TRUE), FStr(Text_52_52), FArr, FNull, FAbsent}

LonValues == {BaseLon, FNum(13400), FStr(Text_52_52), FAbsent}

StartValues ==
    {BaseStart, FStr(Date_2023_3_1), FStr(Date_2023_15_01), FStr(Date_2023_02_30),
     FStr(Date_01_03_2023), FStr(Date_Slashes), FNum(20230301), FNull, FAbsent}

EndValues == {BaseEnd, FStr(Date_2023_15_01), FAbsent}

\* the objects: the base query with one field varied, and a few with several
\* fields absent or wrong at once
Objects ==
    {Object(FALSE, lat, BaseLon, BaseStart, BaseEnd) : lat \in LatValues}
    \cup {Object(FALSE, BaseLat, lon, BaseStart, BaseEnd) : lon \in LonValues}
    \cup {Object(FALSE, BaseLat, BaseLon, sd, BaseEnd) : sd \in StartValues}
    \cup {Object(FALSE, BaseLat, BaseLon, BaseStart, ed) : ed \in EndValues}
    \cup {Object(extra, FAbsent, FAbsent, FAbsent, FAbsent) : extra \in BOOLEAN}
    \cup {Object(FALSE, FAbsent, BaseLon, FNull, BaseEnd),
          Object(TRUE, FStr(Text_52_52), BaseLon, FStr(Date_2023_15_01), BaseEnd),
          Object(FALSE, FStr(Text_52_52), BaseLon, BaseStart, FAbsent)}

NonObjects ==
    {NonObject("json", top, FALSE) : top \in {"null", "bool", "num", "str", "arr"}}
    \cup {NonObject("json", top, TRUE) : top \in {"bool", "num", "str", "arr"}}
    \cup {NonObject(kind, "none", FALSE) : kind \in {"malformed", "empty", "no_mimetype"}}

Bodies == Objects \cup NonObjects

Str(s) == Tok("str", s)
Num(s) == Tok("num", s)
Junk(s) == Tok("junk", s)

\* {"daily": {"time": ["2023-03-01"], "temperature_2m_max": [21.50, 7]}}
RecordText ==
    <<LBrace, Str("daily"), Colon, Space, LBrace, Str("time"), Colon, LBracket,
      Str("2023-03-01"), RBracket, Comma, Str("temperature_2m_max"), Colon,
      LBracket, Num("21.50"), Comma, Space, Num("7"), RBracket, RBrace, RBrace>>

ErrorText ==
    <<LBrace, Str("error"), Colon, Tok("lit", "true"), Comma, Str("reason"),
      Colon, Str("invalid"), RBrace>>

HtmlText == <<Junk("<html>"), Space, Junk("busy"), Space, Junk("</html>")>>

ProviderResponses ==
    {Provider("timeout", 0, <<>>),
     Provider("connection_error", 0, <<>>),
     Provider("ok", 500, ErrorText),
     Provider("ok", 200, HtmlText),
     Provider("ok", 200, <<NullTok>>),
     Provider("ok", 200, <<LBrace, RBrace>>),
     Provider("ok", 200, RecordText)}

StorageFaults == {"none", "NotFound", "Forbidden"}

BucketNames ==
    {[set |-> FALSE, name |-> ""], [set |-> TRUE, name |-> ""],
     [set |-> TRUE, name |-> "weather-data"]}

Name_x_json == <<"x", ".", "j", "s", "o", "n">>
Name_n_json == <<"n", ".", "j", "s", "o", "n">>
Name_missing == <<"m", "i", "s", "s", "i", "n", "g">>

EmptyBucket == [k \in {} |-> <<>>]

\* objects put in the bucket by others: one that is not JSON and one that is
\* the JSON text null
PreloadedBucket ==
    [k \in {Name_x_json, Name_n_json} |->
        IF k = Name_x_json THEN <<Junk("not"), Space, Junk("json")>>
        ELSE <<NullTok>>]

FileNames == {<<>>, Name_x_json, Name_n_json, Name_missing}

NoBody == NonObject("none", "none", FALSE)
NoProvider == Provider("unused", 0, <<>>)

Request(op, body, gj, file_name, prov, fault) ==
    [op |-> op, body |-> body, gj |-> gj, file_name |-> file_name,
     prov |-> prov, fault |-> fault]

\* ------------------------------------------------------------------ state
VARIABLES
    GCS_BUCKET_NAME,  \* app.py: the configured bucket, read once at start
    storage_client,   \* gcs_client.py: "client", or "None" when it failed to start
    bucket,           \* the objects of the bucket
    req,              \* the last request and what its collaborators met
    resp,             \* the response to it
    calls,            \* the collaborator calls it made, in order
    fetched,          \* what its fetch returned
    stored,           \* per object name, the record of the last 201 response
    overwrote         \* the last request replaced the body of an existing object

vars ==
    <<GCS_BUCKET_NAME, storage_client, bucket, req, resp, calls, fetched, stored,
      overwrote>>

Init ==
    /\ GCS_BUCKET_NAME \in BucketNames
    /\ storage_client \in {"client", "None"}
    /\ bucket = PreloadedBucket
    /\ req = Request("none", NoBody, "none", <<>>, NoProvider, "unused")
    /\ resp = Response(0, "none")
    /\ calls = <<>>
    /\ fetched = NotCalled
    /\ stored = EmptyBucket
    /\ overwrote = FALSE

Called(cls, c) == \E i \in 1..Len(cls) : cls[i] = c

Finish(r, request) ==
    /\ Cardinality((DOMAIN r.bucket) \ (DOMAIN PreloadedBucket)) <= MaxStored
    /\ bucket' = r.bucket
    /\ resp' = r.resp
    /\ calls' = r.calls
    /\ fetched' = r.fetched
    /\ req' = request
    /\ stored' = IF r.resp.status = 201
                 THEN Put(stored, r.resp.file_name, r.fetched.data)
                 ELSE stored
    /\ overwrote' = (r.resp.status = 201 /\ r.resp.file_name \in DOMAIN bucket)
    /\ UNCHANGED <<GCS_BUCKET_NAME, storage_client>>

Index ==
    \E r \in {Outcome(index, <<>>, NotCalled, bucket)} :
        Finish(r, Request("index", NoBody, "none", <<>>, NoProvider, "unused"))

\* The provider's answer is drawn only for a request that reaches the fetch,
\* the storage fault only for one that reaches the collaborator call.
StoreWeatherData ==
    \E body \in Bodies :
      \E gj \in get_json(body) :
        \E r0 \in {store_weather_data_endpoint(GCS_BUCKET_NAME, storage_client,
                       bucket, body, gj, NoProvider, "unused")} :
          IF ~Called(r0.calls, "fetch")
          THEN Finish(r0, Request("store", body, gj, <<>>, NoProvider, "unused"))
          ELSE
            \E prov \in ProviderResponses :
              \E r1 \in {store_weather_data_endpoint(GCS_BUCKET_NAME,
                             storage_client, bucket, body, gj, prov, "unused")} :
                IF ~Called(r1.calls, "write")
                THEN Finish(r1, Request("store", body, gj, <<>>, prov, "unused"))
                ELSE
                  \E fault \in StorageFaults :
                    \E r \in {store_weather_data_endpoint(GCS_BUCKET_NAME,
                                  storage_client, bucket, body, gj, prov, fault)} :
                      Finish(r, Request("store", body, gj, <<>>, prov, fault))

ListWeatherFiles ==
    \E fault \in StorageFaults :
      \E r \in {list_weather_files_endpoint(GCS_BUCKET_NAME, storage_client,
                                            bucket, fault)} :
        Finish(r, Request("list", NoBody, "none", <<>>, NoProvider,
                          IF Called(r.calls, "list") THEN fault ELSE "unused"))

WeatherFileContent ==
    \E file_name \in FileNames \cup DOMAIN bucket, fault \in StorageFaults :
      \E r \in {weather_file_content_endpoint(GCS_BUCKET_NAME, storage_client,
                                              bucket, file_name, fault)} :
        Finish(r, Request("get", NoBody, "none", file_name, NoProvider,
                          IF Called(r.calls, "readJson") THEN fault ELSE "unused"))

Next ==
    \/ Index
    \/ StoreWeatherData
    \/ ListWeatherFiles
    \/ WeatherFileContent

Spec == Init /\ [][Next]_vars

\* ------------------------------------------------------------- properties
Configured == GCS_BUCKET_NAME.set /\ GCS_BUCKET_NAME.name # ""

WritePrecededByFetch(cls) ==
    \A i \in 1..Len(cls) : cls[i] = "write" => \E j \in 1..(i - 1) : cls[j] = "fetch"

FetchSucceeded(fch) == fch.called /\ ~fch.raised /\ fch.data # <<NullTok>>
FetchReturnedFailure(fch) == fch.called /\ ~fch.raised /\ fch.data = <<NullTok>>

\* C1: in store-weather-data the object-store write is invoked only after the
\* fetch of the same request returned a success; when the fetch returns the
\* failure outcome the response is 502, write is not invoked and the bucket
\* is what it was before the request.
C1_WriteOnlyAfterFetchSuccess ==
    [][ req'.op = "store" =>
          /\ Called(calls', "write") =>
                WritePrecededByFetch(calls') /\ FetchSucceeded(fetched')
          /\ FetchReturnedFailure(fetched') =>
                /\ resp'.status = 502
                /\ ~Called(calls', "write")
                /\ bucket' = bucket ]_vars

\* a store request whose fetch failed, on a bucket that already holds objects
C1_Witness ==
    /\ req.op = "store"
    /\ FetchReturnedFailure(fetched)
    /\ resp.status = 502
    /\ DOMAIN stored # {}

\* C2: with the bucket identifier unset (absent or empty) store-weather-data,
\* list-weather-files and get-weather-file-content respond 500
\* ServerMisconfigured whatever the input and invoke no collaborator;
\* health-check responds 200.
C2_UnsetBucketFailsFast ==
    (~GCS_BUCKET_NAME.set \/ GCS_BUCKET_NAME.name = "") =>
        /\ req.op \in {"store", "list", "get"} =>
              /\ resp.status = 500
              /\ resp.kind = "ServerMisconfigured"
              /\ calls = <<>>
              /\ ~fetched.called
        /\ req.op = "index" => resp.status = 200

\* a read request answered 500 under a bucket identifier that is set but empty
C2_Witness ==
    /\ GCS_BUCKET_NAME.set
    /\ GCS_BUCKET_NAME.name = ""
    /\ req.op = "get"
    /\ req.file_name = Name_x_json
    /\ resp.status = 500

\* the four provider-side failures
ProviderFailure(p) ==
    \/ p.net \in {"timeout", "connection_error"}
    \/ p.net = "ok" /\ ~(p.status >= 200 /\ p.status < 300)
    \/ p.net = "ok" /\ ~json_loads(p.text).ok

\* C3: for a request timeout, a connection failure, a non-2xx status and a
\* body that is not JSON alike, fetch returns the one failure outcome and
\* never raises, and store-weather-data responds 502.
C3_ProviderFailuresCollapse ==
    (req.op = "store" /\ fetched.called /\ ProviderFailure(req.prov)) =>
        /\ ~fetched.raised
        /\ fetched.data = <<NullTok>>
        /\ resp.status = 502

\* a string of the exact form YYYY-MM-DD that denotes a calendar date
StrictDate(f) ==
    /\ f.kind = "str"
    /\ Len(f.s) = 10
    /\ \A i \in {1, 2, 3, 4, 6, 7, 9, 10} : IsDigit(f.s[i])
    /\ f.s[5] = "-"
    /\ f.s[8] = "-"
    /\ ToInt(SubSeq(f.s, 1, 4)) >= 1
    /\ ToInt(SubSeq(f.s, 6, 7)) \in 1..12
    /\ ToInt(SubSeq(f.s, 9, 10)) >= 1
    /\ ToInt(SubSeq(f.s, 9, 10))
          <= DaysInMonth(ToInt(SubSeq(f.s, 1, 4)), ToInt(SubSeq(f.s, 6, 7)))

Query(r) ==
    <<r.body.latitude, r.body.longitude, r.body.start_date, r.body.end_date>>

\* numeric coordinates and two dates of the exact form YYYY-MM-DD
WellFormedQuery(r) ==
    /\ r.body.latitude.kind = "num"
    /\ r.body.longitude.kind = "num"
    /\ StrictDate(r.body.start_date)
    /\ StrictDate(r.body.end_date)

\* C4 as stated: two accepted queries that differ derive different keys
\* (stated here of queries with numeric coordinates and exact dates only).
C4_KeyOneToOne ==
    [][ ( /\ resp.kind = "Stored" /\ WellFormedQuery(req)
          /\ resp'.kind = "Stored" /\ WellFormedQuery(req')
          /\ Query(req) # Query(req') )
          => resp.file_name # resp'.file_name ]_vars

\* a coordinate in hundredths, rounded as the two-decimal presentation rounds
SignedHundredths(f) ==
    LET x == IF f.kind = "bool" THEN (IF f.b THEN 1000 ELSE 0) ELSE f.n
        a == IF x < 0 THEN -x ELSE x
        h == IF (a % 10) > 5 \/ ((a % 10) = 5 /\ (a \div 10) % 2 = 1)
             THEN (a \div 10) + 1 ELSE a \div 10
    IN IF x < 0 THEN -h ELSE h

WithoutHyphens(f) == SelectSeq(f.s, LAMBDA c : c # "-")

\* C4 (amended): two accepted queries derive different keys whenever they
\* differ in the latitude or the longitude rounded to two decimal places, or
\* in the start or the end date with its hyphens removed.
C4_KeyOneToOneUpToRounding ==
    [][ ( /\ resp.kind = "Stored"
          /\ resp'.kind = "Stored"
          /\ \/ SignedHundredths(req.body.latitude) # SignedHundredths(req'.body.latitude)
             \/ SignedHundredths(req.body.longitude) # SignedHundredths(req'.body.longitude)
             \/ WithoutHyphens(req.body.start_date) # WithoutHyphens(req'.body.start_date)
             \/ WithoutHyphens(req.body.end_date) # WithoutHyphens(req'.body.end_date) )
          => resp.file_name # resp'.file_name ]_vars

\* two queries that differ only in the longitude, stored under two keys
C4_Witness ==
    /\ resp.kind = "Stored"
    /\ req.body.longitude = FNum(13400)
    /\ resp.file_name \in DOMAIN stored
    /\ \E k \in DOMAIN stored : k # resp.file_name

AbsentOrNull(body) ==
    {key \in {"latitude", "longitude", "start_date", "end_date"} :
        ParamOf(body, key).kind \in {"absent", "null"}}

\* C5: a JSON object body with any of the four fields absent or null, the
\* empty object included, is answered 400 MissingParameters naming exactly
\* the absent or null keys, and neither fetch nor write is invoked.
C5_MissingParametersNamed ==
    ( /\ Configured
      /\ req.op = "store"
      /\ req.body.kind = "json"
      /\ req.body.top = "obj"
      /\ AbsentOrNull(req.body) # {} ) =>
        /\ resp.status = 400
        /\ resp.kind = "MissingParameters"
        /\ {resp.missing[i] : i \in 1..Len(resp.missing)} = AbsentOrNull(req.body)
        /\ calls = <<>>

AllPresent(body) ==
    body.kind = "json" /\ body.top = "obj" /\ AbsentOrNull(body) = {}

\* C6: a request that reaches the date check passes it exactly when both
\* dates are strings of the exact zero-padded form YYYY-MM-DD denoting a
\* calendar date; any other value is answered 400 InvalidDateFormat and
\* neither fetch nor write is invoked.
C6_ExactDateFormat ==
    ( /\ Configured
      /\ req.op = "store"
      /\ AllPresent(req.body)
      /\ req.body.latitude.kind = "num"
      /\ req.body.longitude.kind = "num" ) =>
        IF StrictDate(req.body.start_date) /\ StrictDate(req.body.end_date)
        THEN resp.kind # "InvalidDateFormat"
        ELSE resp.status = 400 /\ resp.kind = "InvalidDateFormat" /\ calls = <<>>

\* C7: once store-weather-data has answered 201 with file_name K, and no
\* other write to K has happened since, get-weather-file-content(K), when the
\* object store serves the read, responds 200 with a value equal to the
\* record which the fetch of that store request returned.
C7_RoundTrip ==
    ( /\ req.op = "get"
      /\ req.file_name \in DOMAIN stored
      /\ req.fault = "none" ) =>
        /\ resp.status = 200
        /\ resp.content = stored[req.file_name]

\* a stored record with nested content read back
C7_Witness ==
    /\ req.op = "get"
    /\ req.file_name \in DOMAIN stored
    /\ req.fault = "none"
    /\ resp.status = 200
    /\ Len(resp.content) > 2
    /\ resp.content = stored[req.file_name]

\* C8: get-weather-file-content with a non-empty file_name responds 404
\* exactly when the object is absent, unreadable or not valid JSON; an
\* existing readable object whose body is any JSON value is answered 200
\* with the parsed value.
C8_NotFoundExactly ==
    (Configured /\ req.op = "get" /\ req.file_name # <<>>) =>
        LET unreadable == storage_client = "None" \/ req.fault # "none"
            absent == req.file_name \notin DOMAIN bucket
        IN IF unreadable \/ absent \/ ~json_loads(bucket[req.file_name]).ok
           THEN resp.status = 404 /\ resp.kind = "FileNotFoundOrUnparseable"
           ELSE /\ resp.status = 200
                /\ resp.content = json_loads(bucket[req.file_name]).value

\* C9: with all four fields present, a latitude or longitude that is not a
\* JSON number (a string, a boolean, another JSON value) is answered 400
\* InvalidType and neither fetch nor write is invoked.
C9_NonNumbersRejected ==
    ( /\ Configured
      /\ req.op = "store"
      /\ AllPresent(req.body)
      /\ \/ req.body.latitude.kind # "num"
         \/ req.body.longitude.kind # "num" ) =>
        /\ resp.status = 400
        /\ resp.kind = "InvalidType"
        /\ calls = <<>>

\* C10: a body that is absent, not valid JSON, or a JSON value that is not an
\* object (an array, a string, a number, ...) ends in a 400 error response:
\* no exception escapes the handler and neither fetch nor write is invoked.
C10_NonObjectBodiesRejected ==
    ( /\ Configured
      /\ req.op = "store"
      /\ (req.body.kind # "json" \/ req.body.top # "obj") ) =>
        /\ resp.status = 400
        /\ resp.kind # "UnhandledException"
        /\ calls = <<>>

\* C11: list-weather-files tells an empty listing from a failed one: a list
\* that succeeds is answered 200 with the configured bucket and exactly the
\* object names that start with "weather_" (none of them: files = []); only
\* a failed list is answered 500 StorageListFailed.
C11_EmptyListingIsSuccess ==
    (Configured /\ req.op = "list") =>
        IF storage_client = "client" /\ req.fault = "none"
        THEN /\ resp.status = 200
             /\ resp.bucket = GCS_BUCKET_NAME.name
             /\ resp.files =
                  {k \in DOMAIN bucket :
                      /\ Len(k) >= 8
                      /\ SubSeq(k, 1, 8) = <<"w", "e", "a", "t", "h", "e", "r", "_">>}
        ELSE resp.status = 500 /\ resp.kind = "StorageListFailed"

\* a list that succeeded on a bucket holding no object under the prefix
C11_Witness ==
    /\ req.op = "list"
    /\ req.fault = "none"
    /\ resp.status = 200
    /\ resp.files = {}
    /\ DOMAIN bucket # {}

\* C12: two successful store requests with the same (latitude, longitude,
\* start_date, end_date) return the same file_name; a successful store to a
\* key that is already in the bucket leaves the set of stored keys as it was,
\* and after any successful store the object under the returned key holds
\* the record which the fetch of that request returned.
C12_RepeatedStoreOverwrites ==
    [][ resp'.kind = "Stored" =>
          /\ (resp.kind = "Stored" /\ Query(req') = Query(req))
                => resp'.file_name = resp.file_name
          /\ resp'.file_name \in DOMAIN bucket => DOMAIN bucket' = DOMAIN bucket
          /\ resp'.file_name \in DOMAIN bucket'
          /\ json_loads(bucket'[resp'.file_name]).ok
          /\ json_loads(bucket'[resp'.file_name]).value = fetched'.data ]_vars

\* a store that replaced the object an earlier store had written
C12_Witness ==
    /\ resp.kind = "Stored"
    /\ overwrote
    /\ resp.file_name \in DOMAIN stored
    /\ json_loads(bucket[resp.file_name]).value = fetched.data

====
